---- MODULE Spec2Model ----
(***************************************************************************)
(* Model of the probabilistic combat estimator: the discrete distribution *)
(* algebra (AleatoryVariable), the dice formula (Dice) and the round      *)
(* engine (CombatModel / RoundModel).                                     *)
(*                                                                         *)
(* A distribution is a record [domain, w, den]: domain is the numpy       *)
(* domain array as a sequence of integers, and the float mass at position *)
(* i is the exact rational w[i] / den, kept in lowest terms.  The IEEE    *)
(* value NaN (the result of 0/0) is the mass entry NaN; it is absorbing   *)
(* under + and *.  Indices are 0-based as in the source; sequences are    *)
(* 1-based, so array element i is s[i + 1].                                *)
(***************************************************************************)
EXTENDS Integers, Sequences, FiniteSets, TLC

VARIABLES
    max_rounds,      \* CombatModel.max_rounds
    rounds,          \* CombatModel.rounds, the history of RoundModel records
    round_number,    \* CombatModel.round_number
    a_hits_const,    \* CombatModel.__a_hits
    b_hits_const,    \* CombatModel.__b_hits
    a_dmg_const,     \* CombatModel.__a_dmg
    b_dmg_const,     \* CombatModel.__b_dmg
    used,            \* used[i]: the lookup key and evidence advance_round got when it built rounds[i]
    last_call,       \* the last call made on the engine and how it ended
    op_self, op_other, op_n,  \* operands of the algebra: self, other and the exponent
    op_name, op_out,          \* the operator applied to them and what it returned or raised
    self_after, other_after   \* the operands as the operator left them

vars == <<max_rounds, rounds, round_number, a_hits_const, b_hits_const, a_dmg_const,
          b_dmg_const, used, last_call, op_self, op_other, op_n, op_name, op_out,
          self_after, other_after>>

engine_vars == <<max_rounds, rounds, round_number, a_hits_const, b_hits_const,
                 a_dmg_const, b_dmg_const, used, last_call>>

algebra_vars == <<op_self, op_other, op_n, op_name, op_out, self_after, other_after>>

-----------------------------------------------------------------------------
(* Bounds of the model.                                                    *)

MaxLo == 2          \* algebra operands: the lowest domain value is in -MaxLo..MaxLo
MaxLen == 2         \* algebra operands: 1..MaxLen domain values
MaxMass == 2        \* algebra operands: each mass is in 0..MaxMass
MaxPow == 2         \* exponents are in -MaxPow..MaxPow
MaxRounds == 3      \* max_rounds is in 1..MaxRounds
MaxHistory == 3     \* calls are made while round_number < MaxHistory
MaxTimes == 2       \* dice formulas: 1..MaxTimes dice
MaxDie == 4         \* dice formulas: 1..MaxDie faces
MaxMod == 1         \* dice formulas: the modifier is in -MaxMod..MaxMod
MaxBoons == 1       \* dice formulas: the boons are in -MaxBoons..MaxBoons

-----------------------------------------------------------------------------
(* Numbers and arrays.                                                     *)

NaN == -1

Abs(i) == IF i < 0 THEN -i ELSE i

Min(a, b) == IF a < b THEN a ELSE b

Max(a, b) == IF a > b THEN a ELSE b

RECURSIVE Gcd(_, _)
Gcd(a, b) == IF b = 0 THEN a ELSE Gcd(b, a % b)

Lcm(a, b) == (a \div Gcd(a, b)) * b

\* float multiplication and addition, on numerators
NMul(a, b) == IF a = NaN \/ b = NaN THEN NaN ELSE a * b

NAdd(a, b) == IF a = NaN \/ b = NaN THEN NaN ELSE a + b

RECURSIVE IntPow(_, _)
IntPow(b, e) == IF e = 0 THEN 1 ELSE b * IntPow(b, e - 1)

\* a numpy array holding the elements of f: TLC evaluates f[1], ..., f[Len(f)] once
array(f) == f \o <<>>

np_arange(start, stop) == array([i \in 1..Max(stop - start, 0) |-> start + i - 1])

np_zeros(len) == array([i \in 1..len |-> 0])

np_flip(s) == array([i \in 1..Len(s) |-> s[Len(s) + 1 - i]])

negate(s) == array([i \in 1..Len(s) |-> -s[i]])

scale(s, k) == array([i \in 1..Len(s) |-> NMul(s[i], k)])

\* sum(array)
RECURSIVE sum_from(_, _)
sum_from(s, i) == IF i > Len(s) THEN 0 ELSE NAdd(s[i], sum_from(s, i + 1))

sum(s) == sum_from(s, 1)

\* np.convolve(a, b), mode 'full': entry k (0-based) is the sum of a[i] * b[k - i]
RECURSIVE convolve_at(_, _, _, _)
convolve_at(a, b, k, i) ==
    IF i > Min(k, Len(a) - 1) THEN 0
    ELSE NAdd(NMul(a[i + 1], b[k - i + 1]), convolve_at(a, b, k, i + 1))

np_convolve(a, b) ==
    array([k1 \in 1..(Len(a) + Len(b) - 1) |->
              convolve_at(a, b, k1 - 1, Max(0, k1 - Len(b)))])

np_where_or_start(domain, value) ==
    IF \E i \in 0..(Len(domain) - 1) : domain[i + 1] = value
    THEN {i \in 0..(Len(domain) - 1) : domain[i + 1] = value}
    ELSE {0}

\* np.where(domain == value)[0]: the 0-based indices where domain holds value
np_where(domain, value) == {i \in 0..(Len(domain) - 1) : domain[i + 1] = value}

first_index(indices) == CHOOSE i \in indices : \A j \in indices : i <= j

\* the rational masses w[i] / den in lowest terms
RECURSIVE gcd_all(_, _, _)
gcd_all(w, i, g) ==
    IF i > Len(w) THEN g
    ELSE gcd_all(w, i + 1, IF w[i] = NaN THEN g ELSE Gcd(g, w[i]))

lowest_terms(w, den) ==
    LET g == gcd_all(w, 1, den)
    IN  [w |-> array([i \in 1..Len(w) |-> IF w[i] = NaN THEN NaN ELSE w[i] \div g]),
         den |-> den \div g]

-----------------------------------------------------------------------------
(* AleatoryVariable.                                                       *)

Raise(kind) == [error |-> kind]

IsError(r) == "error" \in DOMAIN r

AleatoryVariable(domain, w, den) ==
    LET m == lowest_terms(w, den)
    IN  [domain |-> domain, w |-> m.w, den |-> m.den]

\* bounds is <<>> (None) or <<lb, ub>>
from_exact(value, bounds) ==
    IF bounds = <<>>
    THEN AleatoryVariable(<<value>>, <<1>>, 1)
    ELSE LET domain == np_arange(bounds[1], bounds[2] + 1)
         IN  IF np_where(domain, value) = {}
             THEN Raise("AssertionError")
             ELSE AleatoryVariable(domain,
                                   array([i \in 1..Len(domain) |->
                                             IF domain[i] = value THEN 1 ELSE 0]),
                                   1)

\* distribution convolved with self.distribution (times - 1) times
RECURSIVE convolve_times(_, _)
convolve_times(w, times) ==
    IF times <= 1 THEN w ELSE np_convolve(convolve_times(w, times - 1), w)

pow_shares_uncopied(self, n) == n = 1

\* whether the distribution array of self ** n is the very array of self:
\* never, it is a copy, a convolution or a new point mass
pow_shares(self, n) == FALSE

pow_unflipped(self, n) ==
    IF n = 0
    THEN from_exact(0, <<>>)
    ELSE LET domain == np_arange(self.domain[1] * Abs(n),
                                 self.domain[Len(self.domain)] * Abs(n) + 1)
             distribution == convolve_times(self.w, Abs(n))
             den == IntPow(self.den, Abs(n))
         IN  IF n > 0
             THEN AleatoryVariable(domain, distribution, den)
             ELSE AleatoryVariable(np_flip(negate(domain)), distribution, den)

__pow__(self, n) ==
    IF n = 0
    THEN from_exact(0, <<>>)
    ELSE LET domain == np_arange(self.domain[1] * Abs(n),
                                 self.domain[Len(self.domain)] * Abs(n) + 1)
             distribution == convolve_times(self.w, Abs(n))
             den == IntPow(self.den, Abs(n))
         IN  IF n > 0
             THEN AleatoryVariable(domain, distribution, den)
             ELSE AleatoryVariable(np_flip(negate(domain)), np_flip(distribution), den)

sub_bin_wrapping(index, length) == index % length

\* the bin of __sub__ that receives the mass computed for index
sub_bin(index, length) ==
    IF index < 0 THEN 0
    ELSE IF index >= length THEN length - 1
    ELSE index

\* the two nested loops of __sub__, k = s * len(other) + o
RECURSIVE sub_loop(_, _, _, _)
sub_loop(self, other, k, distribution) ==
    LET len_self == Len(self.domain)
        len_other == Len(other.w)
    IN  IF k >= len_self * len_other
        THEN distribution
        ELSE LET s == k \div len_other
                 o == k % len_other
                 weighted_partial == NMul(other.w[o + 1], self.w[s + 1])
                 index == s - other.domain[o + 1]
                 bin == sub_bin(index, len_self)
             IN  sub_loop(self, other, k + 1,
                          [distribution EXCEPT ![bin + 1] = NAdd(@, weighted_partial)])

__sub__(self, other) ==
    AleatoryVariable(self.domain,
                     sub_loop(self, other, 0, np_zeros(Len(self.domain))),
                     self.den * other.den)

__add__(self, other) ==
    __sub__(self, [domain |-> negate(other.domain), w |-> other.w, den |-> other.den])

\* variable.distribution[start_index:stop_index] += tmp.distribution, where the
\* masses are acc.w / acc.den and tmp_w / tmp_den; numpy raises ValueError unless
\* the slice and the operand have the same length or the operand has length 1
slice_add(acc, start_index, stop_index, tmp_w, tmp_den) ==
    LET stop == Min(stop_index, Len(acc.w))
        slice_len == Max(stop - start_index, 0)
        common == Lcm(acc.den, tmp_den)
        fa == common \div acc.den
        ft == common \div tmp_den
    IN  IF slice_len # Len(tmp_w) /\ Len(tmp_w) # 1
        THEN Raise("ValueError")
        ELSE lowest_terms(
                 array([i \in 1..Len(acc.w) |->
                           IF i - 1 >= start_index /\ i - 1 < stop
                           THEN NAdd(NMul(acc.w[i], fa),
                                     NMul(tmp_w[IF Len(tmp_w) = 1 THEN 1 ELSE i - start_index],
                                          ft))
                           ELSE NMul(acc.w[i], fa)]),
                 common)

\* variable.distribution /= sum(variable.distribution)
normalize(domain, acc) ==
    LET total == sum(acc.w)
    IN  IF total = NaN \/ total = 0
        THEN [domain |-> domain, w |-> array([i \in 1..Len(acc.w) |-> NaN]), den |-> 1]
        ELSE AleatoryVariable(domain, acc.w, total)

\* the loop of __mul__ from iteration o on; st.self is the left operand as the
\* loop has left it so far, st.acc the masses of variable
RECURSIVE mul_loop(_, _, _, _)
mul_loop(st, other, domain, o) ==
    IF o >= Len(other.domain)
    THEN [ret |-> normalize(domain, st.acc), self |-> st.self]
    ELSE LET value == other.domain[o + 1]
             tmp == __pow__(st.self, value)
             tmp_w == scale(tmp.w, other.w[o + 1])
             tmp_den == tmp.den * other.den
             self1 == IF pow_shares(st.self, value)
                      THEN AleatoryVariable(st.self.domain, tmp_w, tmp_den)
                      ELSE st.self
             found == np_where(domain, tmp.domain[1])
         IN  IF found = {}
             THEN [ret |-> Raise("IndexError"), self |-> self1]
             ELSE LET start_index == first_index(found)
                      stop_index == start_index + Len(tmp.domain)
                      acc1 == slice_add(st.acc, start_index, stop_index, tmp_w, tmp_den)
                  IN  IF IsError(acc1)
                      THEN [ret |-> acc1, self |-> self1]
                      ELSE mul_loop([self |-> self1, acc |-> acc1], other, domain, o + 1)

\* self * other: ret is the distribution returned or the error raised, self the
\* left operand afterwards
mul_run(self, other) ==
    LET low_bound == self.domain[1] * other.domain[1]
        upp_bound == self.domain[Len(self.domain)] * other.domain[Len(other.domain)]
        domain == np_arange(low_bound, upp_bound + 1)
    IN  mul_loop([self |-> self, acc |-> [w |-> np_zeros(Len(domain)), den |-> 1]],
                 other, domain, 0)

__mul__(self, other) == mul_run(self, other).ret

-----------------------------------------------------------------------------
(* Dice.                                                                   *)

\* cdf ** abs(n_boons) first-differenced, as numerators over die ** abs(n_boons)
_boon_distribution(n_boons, die) ==
    LET cdf == array([k \in 1..die |->
                         IntPow(k, Abs(n_boons)) - IntPow(k - 1, Abs(n_boons))])
    IN  IF n_boons < 0 THEN np_flip(cdf) ELSE cdf

_distribution_values(times, die, mod, boons) ==
    LET dice == array([i \in 1..die |-> 1])
        dist == convolve_times(dice, times)
        low_bound == mod + times + (IF boons > 0 THEN 1 ELSE IF boons < 0 THEN -6 ELSE 0)
        upp_bound == mod + times * die + (IF boons > 0 THEN 6 ELSE IF boons < 0 THEN -1 ELSE 0)
    IN  [dist |-> IF boons # 0 THEN np_convolve(dist, _boon_distribution(boons, 6)) ELSE dist,
         values |-> np_arange(low_bound, upp_bound + 1)]

\* np.cumsum(pmf), as numerators
RECURSIVE cumsum_to(_, _)
cumsum_to(s, i) == IF i = 0 THEN 0 ELSE s[i] + cumsum_to(s, i - 1)

np_cumsum(s) == array([i \in 1..Len(s) |-> cumsum_to(s, i)])

\* pmf[i] = dist[i] / total and cdf[i] = cdf_w[i] / total
Dice(times, die, mod, boons) ==
    LET dv == _distribution_values(times, die, mod, boons)
    IN  [values |-> dv.values, dist |-> dv.dist, total |-> sum(dv.dist),
         cdf_w |-> np_cumsum(dv.dist)]

\* np.round(num / den, 2) in hundredths: to the nearest, ties to the even one
np_round2(num, den) ==
    LET q == (100 * num) \div den
        r == (100 * num) % den
    IN  IF 2 * r > den THEN q + 1
        ELSE IF 2 * r < den THEN q
        ELSE IF q % 2 = 0 THEN q ELSE q + 1

prob_against_ties_fail(dice, target) ==
    LET low_bound == dice.values[1]
        upp_bound == dice.values[Len(dice.values)]
    IN  IF low_bound >= target THEN <<0, 100>>
        ELSE IF upp_bound < target THEN <<100, 0>>
        ELSE LET fail_w == dice.cdf_w[(target - low_bound) + 1]
             IN  <<np_round2(fail_w, dice.total), np_round2(dice.total - fail_w, dice.total)>>

\* [failure, success] in hundredths
prob_against(dice, target) ==
    LET low_bound == dice.values[1]
        upp_bound == dice.values[Len(dice.values)]
    IN  IF low_bound >= target THEN <<0, 100>>
        ELSE IF upp_bound < target THEN <<100, 0>>
        ELSE LET fail_w == dice.cdf_w[(target - low_bound - 1) + 1]
             IN  <<np_round2(fail_w, dice.total), np_round2(dice.total - fail_w, dice.total)>>

from_dice(dice) == AleatoryVariable(dice.values, dice.dist, dice.total)

from_hit(dice, target) == AleatoryVariable(np_arange(0, 2), prob_against(dice, target), 100)

Character(health, defense, attack_dice, damage_dice, n_attacks) ==
    [health |-> health, defense |-> defense, attack_dice |-> attack_dice,
     damage_dice |-> damage_dice, n_attacks |-> n_attacks]

-----------------------------------------------------------------------------
(* RoundModel and CombatModel.                                             *)

None == [none |-> TRUE]

RoundModel(a_hp, b_hp, a_hits, b_hits, a_damage, b_damage) ==
    [a_hp |-> a_hp, a_hits |-> a_hits, a_damage |-> a_damage,
     b_hp |-> b_hp, b_hits |-> b_hits, b_damage |-> b_damage]

Fields == {"a_hp", "a_hits", "a_damage", "b_hp", "b_hits", "b_damage"}

get_default_only(round, attribute_name, default) == default

\* RoundModel.get: the attribute unless it is None, else the default
get(round, attribute_name, default) ==
    IF round[attribute_name] # None THEN round[attribute_name] ELSE default

evidence_key_current(number) == number

\* the key simulate looks up in evidence for its next advance_round
evidence_key(number) == number + 1

\* evidence.get(key, None)
dict_get(evidence, key) == IF key \in DOMAIN evidence THEN evidence[key] ELSE None

\* self.rounds.append(round)
store_round(history, round) == Append(history, round)

\* the engine as a record of its fields; raised is the exception that left the
\* call, "none" when it returned
CombatModel(a_character, b_character, rounds_limit) ==
    [max_rounds |-> rounds_limit,
     rounds |-> <<RoundModel(from_exact(a_character.health, <<0, a_character.health + 1>>),
                             from_exact(b_character.health, <<0, b_character.health + 1>>),
                             None, None, None, None)>>,
     round_number |-> 0,
     a_hits |-> __pow__(from_hit(a_character.attack_dice, b_character.defense),
                        a_character.n_attacks),
     b_hits |-> __pow__(from_hit(b_character.attack_dice, a_character.defense),
                        b_character.n_attacks),
     a_dmg |-> from_dice(a_character.damage_dice),
     b_dmg |-> from_dice(b_character.damage_dice),
     used |-> <<[key |-> 0, evidence |-> None]>>,
     raised |-> "none"]

\* if round_evidence is None: round_evidence = RoundModel()
or_empty(round_evidence) ==
    IF round_evidence = None
    THEN RoundModel(None, None, None, None, None, None)
    ELSE round_evidence

\* advance_round from HEALTH on: the two health fields, then the round is stored
advance_health(self, round_evidence, key, a_hits, b_hits, a_damage, b_damage) ==
    LET prev_round == self.rounds[self.round_number + 1]
        a_hp == get(or_empty(round_evidence), "a_hp", __sub__(prev_round.a_hp, b_damage))
        b_hp == get(or_empty(round_evidence), "b_hp", __sub__(prev_round.b_hp, a_damage))
    IN  [self EXCEPT
            !.round_number = self.round_number + 1,
            !.rounds = store_round(self.rounds,
                                   RoundModel(a_hp, b_hp, a_hits, b_hits, a_damage, b_damage)),
            !.used = Append(self.used, [key |-> key, evidence |-> round_evidence]),
            !.raised = "none"]

\* advance_round from DAMAGE on: a_mul and b_mul are the default damages
\* self.__a_dmg * a_hits and self.__b_dmg * b_hits, computed (in this order)
\* before get chooses between each and the evidence
advance_damage(self, round_evidence, key, a_hits, b_hits, a_mul, b_mul) ==
    IF IsError(a_mul.ret)
    THEN [self EXCEPT !.a_dmg = a_mul.self, !.raised = a_mul.ret.error]
    ELSE IF IsError(b_mul.ret)
    THEN [self EXCEPT !.a_dmg = a_mul.self, !.b_dmg = b_mul.self, !.raised = b_mul.ret.error]
    ELSE advance_health([self EXCEPT !.a_dmg = a_mul.self, !.b_dmg = b_mul.self],
                        round_evidence, key, a_hits, b_hits,
                        get(or_empty(round_evidence), "a_damage", a_mul.ret),
                        get(or_empty(round_evidence), "b_damage", b_mul.ret))

\* advance_round from HITS on
advance_hits(self, round_evidence, key, a_hits, b_hits) ==
    advance_damage(self, round_evidence, key, a_hits, b_hits,
                   mul_run(self.a_dmg, a_hits), mul_run(self.b_dmg, b_hits))

\* advance_round(round_evidence); key is the key simulate looked the evidence up
\* under, 0 for a direct call
advance_round(self, round_evidence, key) ==
    advance_hits(self, round_evidence, key,
                 get(or_empty(round_evidence), "a_hits", self.a_hits),
                 get(or_empty(round_evidence), "b_hits", self.b_hits))

\* the values of t that simulate's loop runs through: range(1, max_rounds)
simulate_range(rounds_limit) == 1..(rounds_limit - 1)

\* simulate's loop from iteration t on; next is the engine after the advance_round
\* of iteration t - 1, and an exception leaves the loop
RECURSIVE simulate_loop(_, _, _, _)
simulate_loop(next, evidence, t, advances) ==
    IF next.raised # "none" \/ t \notin simulate_range(next.max_rounds)
    THEN [engine |-> next, advances |-> advances]
    ELSE simulate_loop(advance_round(next, dict_get(evidence, evidence_key(next.round_number)),
                                     evidence_key(next.round_number)),
                       evidence, t + 1, advances + 1)

simulate(self, evidence) == simulate_loop([self EXCEPT !.raised = "none"], evidence, 1, 0)

-----------------------------------------------------------------------------
(* The encounters and the evidence the engine is run on.                   *)

Knight == Character(7, 3, Dice(1, 4, 0, 0), Dice(1, 2, 0, 0), 2)

Ogre == Character(8, 2, Dice(1, 4, 1, 0), Dice(2, 2, 0, 0), 1)

Rat == Character(1, 1, Dice(1, 2, 0, 0), Dice(1, 2, -1, 0), 1)

\* its damage dice 1d2-2 rolls -1 or 0
Imp == Character(7, 4, Dice(1, 4, 0, 0), Dice(1, 2, -2, 0), 1)

Matchups == {<<Knight, Ogre>>, <<Ogre, Rat>>, <<Imp, Knight>>}

\* one evidence value for each field
EvidenceValue ==
    [a_hp |-> from_exact(3, <<0, 5>>),
     b_hp |-> from_exact(2, <<0, 8>>),
     a_hits |-> from_exact(1, <<>>),
     b_hits |-> AleatoryVariable(<<0, 1>>, <<1, 3>>, 4),
     a_damage |-> from_exact(6, <<>>),
     b_damage |-> from_exact(2, <<0, 3>>)]

\* the evidence record that supplies exactly the fields of supplied
Supplied(f, supplied) == IF f \in supplied THEN EvidenceValue[f] ELSE None

EvidenceFor(supplied) ==
    RoundModel(Supplied("a_hp", supplied), Supplied("b_hp", supplied),
               Supplied("a_hits", supplied), Supplied("b_hits", supplied),
               Supplied("a_damage", supplied), Supplied("b_damage", supplied))

NoEvidenceRound == EvidenceFor({})

\* a_damage of -1 (the target is healed), and a_hits with no mass at all
Healing == [NoEvidenceRound EXCEPT !.a_damage = from_exact(-1, <<>>)]

NoMassHits == [NoEvidenceRound EXCEPT !.a_hits = [domain |-> <<0, 1>>, w |-> <<0, 0>>, den |-> 1]]

EvidenceRounds == {EvidenceFor(supplied) : supplied \in SUBSET Fields} \cup {Healing, NoMassHits}

LaterRounds == {None, Healing}

\* evidence for rounds 1 and 2, as in the example of simulator.py, and with the
\* health of round 1 and the damage of round 2
ExampleEvidence == <<EvidenceFor({"b_damage"}), EvidenceFor({"b_hp"})>>

HealthThenDamage == <<EvidenceFor({"a_hp", "b_hp"}), EvidenceFor({"a_damage"})>>

\* evidence dictionaries: empty, one key in 1..MaxRounds - 1, or the keys 1 and 2
EvidenceDicts ==
    {<<>>, ExampleEvidence, HealthThenDamage}
        \cup {[k \in {key} |-> r] : key \in 1..(MaxRounds - 1), r \in EvidenceRounds}

LaterDicts == {<<>>}

\* the operands of the algebra
Distributions ==
    UNION {{[domain |-> np_arange(lo, lo + len), w |-> w, den |-> 1] :
               w \in [1..len -> 0..MaxMass]} :
           lo \in (-MaxLo)..MaxLo, len \in 1..MaxLen}

\* the right operands of an addition
PointMasses == {from_exact(value, <<>>) : value \in (-MaxLo)..MaxLo}

-----------------------------------------------------------------------------
(* The state machine of the engine.                                        *)

Engine ==
    [max_rounds |-> max_rounds, rounds |-> rounds, round_number |-> round_number,
     a_hits |-> a_hits_const, b_hits |-> b_hits_const, a_dmg |-> a_dmg_const,
     b_dmg |-> b_dmg_const, used |-> used, raised |-> "none"]

\* the call name has left the engine as run.engine, after run.advances calls of
\* advance_round
Returns(name, arg, run) ==
    /\ max_rounds' = run.engine.max_rounds
    /\ rounds' = run.engine.rounds
    /\ round_number' = run.engine.round_number
    /\ a_hits_const' = run.engine.a_hits
    /\ b_hits_const' = run.engine.b_hits
    /\ a_dmg_const' = run.engine.a_dmg
    /\ b_dmg_const' = run.engine.b_dmg
    /\ used' = run.engine.used
    /\ last_call' = [name |-> name, fresh |-> last_call.name = "none", arg |-> arg,
                     advances |-> run.advances, raised |-> run.engine.raised]

\* last_call: the method called last (fresh: it was the first call on the engine), its
\* argument, the advance_round calls it made and the exception that left it
NoCall == [name |-> "none", fresh |-> TRUE, arg |-> None, advances |-> 0, raised |-> "none"]

AlgebraIdle ==
    /\ op_self = None
    /\ op_other = None
    /\ op_n = 0
    /\ op_name = "none"
    /\ op_out = None
    /\ self_after = None
    /\ other_after = None

Constructed(engine) ==
    /\ max_rounds = engine.max_rounds
    /\ rounds = engine.rounds
    /\ round_number = engine.round_number
    /\ a_hits_const = engine.a_hits
    /\ b_hits_const = engine.b_hits
    /\ a_dmg_const = engine.a_dmg
    /\ b_dmg_const = engine.b_dmg
    /\ used = engine.used

Init ==
    /\ \E m \in Matchups, limit \in 1..MaxRounds : Constructed(CombatModel(m[1], m[2], limit))
    /\ last_call = NoCall
    /\ AlgebraIdle

\* combat.simulate(evidence)
Simulate ==
    /\ round_number + Cardinality(simulate_range(max_rounds)) <= MaxHistory
    /\ \E evidence \in (IF last_call.name = "none" THEN EvidenceDicts ELSE LaterDicts) :
          Returns("simulate", evidence, simulate(Engine, evidence))
    /\ UNCHANGED algebra_vars

\* combat.advance_round(round_evidence)
AdvanceRound ==
    /\ round_number < MaxHistory
    /\ \E round_evidence \in (IF last_call.name = "none" THEN EvidenceRounds \cup {None}
                                                        ELSE LaterRounds) :
          Returns("advance_round", round_evidence,
                  [engine |-> advance_round(Engine, round_evidence, 0), advances |-> 1])
    /\ UNCHANGED algebra_vars

Next == Simulate \/ AdvanceRound

Spec == Init /\ [][Next]_vars

-----------------------------------------------------------------------------
(* The algebra applied to a pair of operands.                              *)

EngineIdle ==
    /\ max_rounds = 0
    /\ rounds = <<>>
    /\ round_number = 0
    /\ a_hits_const = None
    /\ b_hits_const = None
    /\ a_dmg_const = None
    /\ b_dmg_const = None
    /\ used = <<>>
    /\ last_call = NoCall

InitAlgebra ==
    /\ op_self \in Distributions
    /\ op_other = None
    /\ op_n = 0
    /\ op_name = "none"
    /\ op_out = None
    /\ self_after = op_self
    /\ other_after = None
    /\ EngineIdle

\* op_self ** exponent
ApplyPow ==
    /\ op_name = "none"
    /\ \E exponent \in (-MaxPow)..MaxPow :
          /\ op_n' = exponent
          /\ op_out' = __pow__(op_self, exponent)
    /\ op_name' = "pow"
    /\ UNCHANGED <<op_self, op_other, self_after, other_after>>
    /\ UNCHANGED engine_vars

\* op_self - other
ApplySub ==
    /\ op_name = "none"
    /\ \E other \in Distributions :
          /\ op_other' = other
          /\ other_after' = other
          /\ op_out' = __sub__(op_self, other)
    /\ op_name' = "sub"
    /\ UNCHANGED <<op_self, op_n, self_after>>
    /\ UNCHANGED engine_vars

\* op_self + other
ApplyAdd ==
    /\ op_name = "none"
    /\ \E other \in PointMasses :
          /\ op_other' = other
          /\ other_after' = other
          /\ op_out' = __add__(op_self, other)
    /\ op_name' = "add"
    /\ UNCHANGED <<op_self, op_n, self_after>>
    /\ UNCHANGED engine_vars

\* the operands, the result and the left operand afterwards of op_self * other
Multiplied(other, run) ==
    /\ op_other' = other
    /\ other_after' = other
    /\ op_out' = run.ret
    /\ self_after' = run.self

\* op_self * other
ApplyMul ==
    /\ op_name = "none"
    /\ \E other \in Distributions : Multiplied(other, mul_run(op_self, other))
    /\ op_name' = "mul"
    /\ UNCHANGED <<op_self, op_n>>
    /\ UNCHANGED engine_vars

NextAlgebra == ApplyPow \/ ApplySub \/ ApplyAdd \/ ApplyMul

SpecAlgebra == InitAlgebra /\ [][NextAlgebra]_vars

-----------------------------------------------------------------------------
(* A dice formula rolled against a target.                                 *)

\* the dice formulas Dice.__init__ accepts (times > 0 and die > 0)
DiceFormulas ==
    {Dice(times, die, mod, boons) :
        times \in 1..MaxTimes, die \in 1..MaxDie,
        mod \in (-MaxMod)..MaxMod, boons \in (-MaxBoons)..MaxBoons}

\* the targets from below the lowest value of dice to above its highest one
Targets(dice) == (dice.values[1] - 2)..(dice.values[Len(dice.values)] + 2)

InitDice ==
    /\ op_self \in DiceFormulas
    /\ op_other = None
    /\ op_n = 0
    /\ op_name = "none"
    /\ op_out = None
    /\ self_after = op_self
    /\ other_after = None
    /\ EngineIdle

\* op_self.prob_against(target)
ApplyProbAgainst ==
    /\ op_name = "none"
    /\ \E target \in Targets(op_self) :
          /\ op_n' = target
          /\ op_out' = prob_against(op_self, target)
    /\ op_name' = "prob_against"
    /\ UNCHANGED <<op_self, op_other, self_after, other_after>>
    /\ UNCHANGED engine_vars

\* AleatoryVariable.from_hit(op_self, target)
ApplyFromHit ==
    /\ op_name = "none"
    /\ \E target \in Targets(op_self) :
          /\ op_n' = target
          /\ op_out' = from_hit(op_self, target)
    /\ op_name' = "from_hit"
    /\ UNCHANGED <<op_self, op_other, self_after, other_after>>
    /\ UNCHANGED engine_vars

NextDice == ApplyProbAgainst \/ ApplyFromHit

SpecDice == InitDice /\ [][NextDice]_vars

-----------------------------------------------------------------------------
(* Helpers of the properties.                                              *)

RECURSIVE SumOver(_, _)
SumOver(F, S) ==
    IF S = {} THEN 0
    ELSE LET e == CHOOSE e \in S : TRUE IN F[e] + SumOver(F, S \ {e})

Indices(s) == 1..Len(s)

Lo(X) == X.domain[1]

Hi(X) == X.domain[Len(X.domain)]

Clamp(v, lo, hi) == IF v < lo THEN lo ELSE IF v > hi THEN hi ELSE v

\* the numerator of the mass of X at value v (0 outside the domain)
MassAt(X, v) ==
    IF \E i \in Indices(X.domain) : X.domain[i] = v
    THEN X.w[CHOOSE i \in Indices(X.domain) : X.domain[i] = v]
    ELSE 0

HasNaN(X) == \E i \in Indices(X.w) : X.w[i] = NaN

\* the numerator, over X.den ^ draws, of the probability that draws independent
\* draws of X sum to v
RECURSIVE DrawsMass(_, _, _)
DrawsMass(X, draws, v) ==
    IF draws = 0 THEN (IF v = 0 THEN 1 ELSE 0)
    ELSE SumOver([i \in Indices(X.domain) |-> X.w[i] * DrawsMass(X, draws - 1, v - X.domain[i])],
                 Indices(X.domain))

Stored(t) == rounds[t + 1]

EvidenceOf(t) == or_empty(used[t + 1].evidence)

-----------------------------------------------------------------------------
(* C1 *)

\* C1: in every reachable state of the engine round_number is in 0..max_rounds-1
\* and the history holds round_number+1 round states (so nothing is appended
\* once round_number = max_rounds-1).
C1_RoundIndexBounded ==
    /\ round_number \in 0..(max_rounds - 1)
    /\ Len(rounds) = round_number + 1

-----------------------------------------------------------------------------
(* C2 *)

\* X moved down by k, the mass that would fall below the lowest domain value
\* gathered on it
ShiftDown(X, k) ==
    AleatoryVariable(
        X.domain,
        [j \in Indices(X.domain) |->
            IF j = 1
            THEN sum([i \in 1..Min(k + 1, Len(X.w)) |-> X.w[i]])
            ELSE IF j + k <= Len(X.w) THEN X.w[j + k] ELSE 0],
        X.den)

\* round state t holds the evidence value of every field the evidence it was
\* built under supplies
C2_Verbatim(t) ==
    \A f \in Fields : EvidenceOf(t)[f] # None => Stored(t)[f] = EvidenceOf(t)[f]

\* every field the evidence does not supply is derived from the values the round
\* state holds (the effective ones) and the health stored for round t - 1
C2_Derived(t) ==
    /\ EvidenceOf(t).a_hits = None => Stored(t).a_hits = a_hits_const
    /\ EvidenceOf(t).b_hits = None => Stored(t).b_hits = b_hits_const
    /\ EvidenceOf(t).a_damage = None =>
          Stored(t).a_damage = __mul__(a_dmg_const, Stored(t).a_hits)
    /\ EvidenceOf(t).b_damage = None =>
          Stored(t).b_damage = __mul__(b_dmg_const, Stored(t).b_hits)
    /\ EvidenceOf(t).a_hp = None =>
          Stored(t).a_hp = __sub__(Stored(t - 1).a_hp, Stored(t).b_damage)
    /\ EvidenceOf(t).b_hp = None =>
          Stored(t).b_hp = __sub__(Stored(t - 1).b_hp, Stored(t).a_damage)

\* evidence fixing a_damage to exactly 6 moves b_hp down by 6
C2_ScenarioE(t) ==
    (EvidenceOf(t).a_damage = from_exact(6, <<>>) /\ EvidenceOf(t).b_hp = None) =>
        Stored(t).b_hp = ShiftDown(Stored(t - 1).b_hp, 6)

\* C2: every round state t >= 1 holds each field its evidence supplies verbatim
\* and derives every other field from the round's effective values and the health
\* stored for round t-1 (evidence included); with a_damage fixed to exactly 6,
\* b_hp is the previous b_hp moved down by 6, saturating at the lowest bin.
C2_EvidenceOverridesElseDerived ==
    \A t \in 1..round_number : C2_Verbatim(t) /\ C2_Derived(t) /\ C2_ScenarioE(t)

\* round 2 was built under evidence supplying a_damage = 6 and not b_hp, after a
\* round 1 whose b_hp has mass both below 6 (it saturates) and from 6 up
C2_Witness ==
    /\ round_number >= 2
    /\ EvidenceOf(2).a_damage = from_exact(6, <<>>)
    /\ EvidenceOf(2).b_hp = None
    /\ \E v \in 1..5 : MassAt(Stored(1).b_hp, v) > 0
    /\ \E v \in 6..9 : MassAt(Stored(1).b_hp, v) > 0
    /\ MassAt(Stored(2).b_hp, 0) > 0

-----------------------------------------------------------------------------
(* C3 *)

NoHealthEvidence == \A t \in 1..round_number : EvidenceOf(t).a_hp = None /\ EvidenceOf(t).b_hp = None

\* hp has the domain of start (the health of round 0), no mass on its highest
\* value startingHealth + 1, and no undefined mass
WithinStart(hp, start) ==
    /\ hp.domain = start.domain
    /\ ~HasNaN(hp)
    /\ hp.w[Len(hp.w)] = 0

\* hp is the point mass of probability 1 at the one but last domain value
PointMassAtStart(hp) ==
    /\ hp.den = 1
    /\ \A i \in Indices(hp.w) : hp.w[i] = (IF i = Len(hp.w) - 1 THEN 1 ELSE 0)

\* C3: while no evidence overrides a health field, every round state keeps both
\* health distributions on the round-0 domain [0, startingHealth+1] with all mass
\* on [0, startingHealth]; round 0 is a point mass at startingHealth.
C3_HealthWithinStart ==
    /\ PointMassAtStart(Stored(0).a_hp)
    /\ PointMassAtStart(Stored(0).b_hp)
    /\ NoHealthEvidence =>
          \A t \in 0..round_number :
              /\ WithinStart(Stored(t).a_hp, Stored(0).a_hp)
              /\ WithinStart(Stored(t).b_hp, Stored(0).b_hp)

-----------------------------------------------------------------------------
(* C8 *)

\* C8: advance_round and simulate only append to the history, every round state
\* already stored stays as it is, and the multiply and subtract of each round
\* leave the engine's precomputed hit and damage-per-hit distributions as they are.
C8_AppendOnly ==
    [][/\ Len(rounds') >= Len(rounds)
       /\ \A i \in Indices(rounds) : rounds'[i] = rounds[i]
       /\ a_hits_const' = a_hits_const
       /\ b_hits_const' = b_hits_const
       /\ a_dmg_const' = a_dmg_const
       /\ b_dmg_const' = b_dmg_const]_vars

\* a call has appended a round to a history that already held round 1, using
\* the precomputed distributions for every field
C8_Witness ==
    /\ round_number >= 2
    /\ last_call.raised = "none"
    /\ used[round_number + 1].evidence = None
    /\ Stored(round_number).a_hits = a_hits_const
    /\ Stored(round_number).a_damage = __mul__(a_dmg_const, a_hits_const)

-----------------------------------------------------------------------------
(* C9 *)

\* all the mass of hp is on the value 0
Dead(hp) == ~HasNaN(hp) /\ MassAt(hp, 0) = hp.den /\ sum(hp.w) = hp.den

\* C9 as stated: every simulate call on a freshly constructed engine ends after
\* exactly max_rounds-1 advance_round calls with the round states 0..max_rounds-1,
\* the state at index t built under the evidence record keyed t.
C9_AlwaysAllRounds ==
    (last_call.name = "simulate" /\ last_call.fresh) =>
        /\ last_call.advances = max_rounds - 1
        /\ round_number = max_rounds - 1
        /\ Len(rounds) = max_rounds
        /\ \A t \in 1..round_number :
              /\ used[t + 1].key = t
              /\ used[t + 1].evidence = dict_get(last_call.arg, t)

\* C9: a simulate call on a freshly constructed engine that returns has made
\* exactly max_rounds-1 advance_round calls and left the round states
\* 0..max_rounds-1, the state at index t built under the evidence record keyed t
\* (none when the key is absent); it leaves earlier only by the exception of the
\* advance_round call it was in, the history built so far following the same rule.
C9_SimulateRunsAllRounds ==
    (last_call.name = "simulate" /\ last_call.fresh) =>
        /\ last_call.raised = "none" =>
              /\ last_call.advances = max_rounds - 1
              /\ round_number = max_rounds - 1
              /\ Len(rounds) = max_rounds
        /\ last_call.raised # "none" =>
              /\ last_call.raised \in {"IndexError", "ValueError"}
              /\ last_call.advances = round_number + 1
              /\ round_number < max_rounds - 1
        /\ \A t \in 1..round_number :
              /\ used[t + 1].key = t
              /\ used[t + 1].evidence = dict_get(last_call.arg, t)

\* a fresh simulate with evidence for round 2 ran its 2 rounds although the
\* health of b was all on 0 from round 1 on
C9_Witness ==
    /\ last_call.name = "simulate"
    /\ last_call.fresh
    /\ last_call.raised = "none"
    /\ max_rounds = 3
    /\ round_number = 2
    /\ 2 \in DOMAIN last_call.arg
    /\ Dead(Stored(1).b_hp)
    /\ Dead(Stored(2).b_hp)

-----------------------------------------------------------------------------
(* C4 *)

\* the numerator, over X.den * Y.den, of the joint mass of the value pairs (s, o)
\* with clamp(s - o, lo, hi) = v
ClampedPairs(X, Y, v) ==
    SumOver([pair \in Indices(X.domain) \X Indices(Y.domain) |->
                IF Clamp(X.domain[pair[1]] - Y.domain[pair[2]], Lo(X), Hi(X)) = v
                THEN X.w[pair[1]] * Y.w[pair[2]]
                ELSE 0],
            Indices(X.domain) \X Indices(Y.domain))

\* C4: subtract returns a distribution with exactly self's domain and length
\* whose mass at each bin v is the sum of p_self(s) * p_other(o) over the value
\* pairs with clamp(s - o, lo, hi) = v, so its total mass is the product of the
\* operands' total masses.
C4_SubtractSaturates ==
    op_name = "sub" =>
        /\ op_out.domain = op_self.domain
        /\ Len(op_out.w) = Len(op_self.w)
        /\ \A i \in Indices(op_out.domain) :
              op_out.w[i] * op_self.den * op_other.den
                  = op_out.den * ClampedPairs(op_self, op_other, op_out.domain[i])
        /\ sum(op_out.w) * op_self.den * op_other.den
              = op_out.den * sum(op_self.w) * sum(op_other.w)

\* a subtraction in which mass falls below the lowest bin and on a bin of the
\* domain, the operands having different lowest values
C4_Witness ==
    /\ op_name = "sub"
    /\ Len(op_self.domain) >= 2
    /\ Lo(op_self) # Lo(op_other)
    /\ \E s \in Indices(op_self.domain), o \in Indices(op_other.domain) :
          /\ op_self.w[s] * op_other.w[o] > 0
          /\ op_self.domain[s] - op_other.domain[o] < Lo(op_self) - 1
    /\ \E s \in Indices(op_self.domain), o \in Indices(op_other.domain) :
          /\ op_self.w[s] * op_other.w[o] > 0
          /\ op_self.domain[s] - op_other.domain[o] \in Lo(op_self)..Hi(op_self)

-----------------------------------------------------------------------------
(* C10 *)

\* the masses of R are those of the sum of draws independent draws of X, R at
\* sign * v being the sum at v
MassOfDraws(R, X, draws, sign) ==
    \A i \in Indices(R.domain) :
        R.w[i] * IntPow(X.den, draws) = R.den * DrawsMass(X, draws, sign * R.domain[i])

\* C10: power(0) is the point mass at 0; power(1) has the domain and mass of X;
\* power(n), n >= 1, has domain [lo*n, hi*n] and the mass of the sum of n
\* independent draws of X; power(-n) has domain [-hi*n, -lo*n] and at -x the mass
\* power(n) has at x.
C10_Power ==
    op_name = "pow" =>
        /\ op_n = 0 => op_out = [domain |-> <<0>>, w |-> <<1>>, den |-> 1]
        /\ op_n = 1 =>
              /\ op_out.domain = op_self.domain
              /\ \A i \in Indices(op_self.w) : op_out.w[i] * op_self.den = op_self.w[i] * op_out.den
        /\ op_n >= 1 =>
              /\ op_out.domain = [i \in 1..((Hi(op_self) - Lo(op_self)) * op_n + 1) |->
                                     Lo(op_self) * op_n + i - 1]
              /\ Len(op_out.w) = Len(op_out.domain)
              /\ MassOfDraws(op_out, op_self, op_n, 1)
        /\ op_n <= -1 =>
              /\ op_out.domain = [i \in 1..((Hi(op_self) - Lo(op_self)) * (-op_n) + 1) |->
                                     (-Hi(op_self)) * (-op_n) + i - 1]
              /\ Len(op_out.w) = Len(op_out.domain)
              /\ MassOfDraws(op_out, op_self, -op_n, -1)

\* a negative power of a distribution with two values of different mass, whose
\* lowest value is not 0
C10_Witness ==
    /\ op_name = "pow"
    /\ op_n = -2
    /\ Len(op_self.w) = 2
    /\ op_self.w[1] > op_self.w[2]
    /\ op_self.w[2] > 0
    /\ Lo(op_self) > 0
    /\ Lo(op_out) = -2 * Hi(op_self)

-----------------------------------------------------------------------------
(* C5, C6, C7 *)

\* the lowest and the highest value of X.power(v)
PowerLo(X, v) == IF v >= 0 THEN Lo(X) * v ELSE Hi(X) * v

PowerHi(X, v) == IF v >= 0 THEN Hi(X) * v ELSE Lo(X) * v

\* for some value v of Y, the lowest value of X.power(v) is no value of the
\* result domain [min(X)*min(Y), max(X)*max(Y)], or X.power(v) reaches beyond it
Misaligned(X, Y) ==
    \E o \in Indices(Y.domain) :
        \/ PowerLo(X, Y.domain[o]) < Lo(X) * Lo(Y)
        \/ PowerLo(X, Y.domain[o]) > Hi(X) * Hi(Y)
        \/ PowerHi(X, Y.domain[o]) > Hi(X) * Hi(Y)

MaxAbs(Y) == Max(Abs(Lo(Y)), Abs(Hi(Y)))

\* the numerator, over X.den ^ MaxAbs(Y) * Y.den, of the sum over the values v of
\* Y of p_Y(v) * (X.power(v))(value)
Mixture(X, Y, value) ==
    SumOver([o \in Indices(Y.domain) |->
                Y.w[o] * DrawsMass(X, Abs(Y.domain[o]),
                                   IF Y.domain[o] < 0 THEN -value ELSE value)
                       * IntPow(X.den, MaxAbs(Y) - Abs(Y.domain[o]))],
            Indices(Y.domain))

MixtureTotal(X, Y) ==
    SumOver([value \in (Lo(X) * Lo(Y))..(Hi(X) * Hi(Y)) |-> Mixture(X, Y, value)],
            (Lo(X) * Lo(Y))..(Hi(X) * Hi(Y)))

\* C5: whenever multiply returns a result, its domain is
\* [min(self)*min(other), max(self)*max(other)], every contribution
\* self.power(v) lies inside it at its own values, the total mass is 1 and the
\* mass at x is proportional to the sum over v of p_other(v) * (self.power(v))(x).
C5_MultiplyMixture ==
    (op_name = "mul" /\ ~IsError(op_out)) =>
        /\ op_out.domain = [i \in 1..(Hi(op_self) * Hi(op_other) - Lo(op_self) * Lo(op_other) + 1) |->
                               Lo(op_self) * Lo(op_other) + i - 1]
        /\ ~Misaligned(op_self, op_other)
        /\ ~HasNaN(op_out)
        /\ sum(op_out.w) = op_out.den
        /\ \A i \in Indices(op_out.domain) :
              op_out.w[i] * MixtureTotal(op_self, op_other)
                  = op_out.den * Mixture(op_self, op_other, op_out.domain[i])

\* C6: a multiply whose accumulated mass has total zero ends in the error
\* 'degenerate distribution', and no multiply returns a distribution with an
\* undefined (NaN) mass.
C6_DegenerateIsAnError ==
    op_name = "mul" =>
        /\ ~IsError(op_out) => ~HasNaN(op_out)
        /\ (~Misaligned(op_self, op_other) /\ MixtureTotal(op_self, op_other) = 0) =>
              op_out = Raise("DegenerateDistribution")

\* C7: if for some value v of other the lowest value of self.power(v) is no value
\* of the result domain, or self.power(v) does not fit inside it, multiply ends
\* with an error and returns no distribution (a damage with a negative minimum
\* times a hit count whose domain starts at 0 included).
C7_MisalignedMultiplyFails ==
    (op_name = "mul" /\ Misaligned(op_self, op_other)) =>
        /\ IsError(op_out)
        /\ op_out.error \in {"IndexError", "ValueError"}

\* a distribution with a negative minimum and mass on it was multiplied by a hit
\* count on {0, 1} with mass on 1
C7_Witness ==
    /\ op_name = "mul"
    /\ Lo(op_self) < 0
    /\ op_self.w[1] > 0
    /\ op_other.domain = <<0, 1>>
    /\ op_other.w[2] > 0
    /\ IsError(op_out)

-----------------------------------------------------------------------------
(* C11 *)

\* the pmf numerator, over dice.total, of the values of dice below target
MassBelow(dice, target) ==
    SumOver([i \in Indices(dice.values) |->
                IF dice.values[i] < target THEN dice.dist[i] ELSE 0],
            Indices(dice.values))

\* hundredths is num / den to two decimals: the nearest hundredth, and the even
\* one of the two when num / den is halfway between them
IsRounded(hundredths, num, den) ==
    /\ 2 * Abs(100 * num - hundredths * den) <= den
    /\ 2 * Abs(100 * num - hundredths * den) = den => hundredths % 2 = 0

\* the target is a value of the dice above the lowest one
Contested(dice, target) ==
    dice.values[1] < target /\ target <= dice.values[Len(dice.values)]

\* C11 as stated: prob_against returns [0, 1] for a target at or below the lowest
\* value, [1, 0] for one above the highest, and otherwise exactly [pmf mass of
\* the values below target, pmf mass of the values at or above it], read at a
\* valid cdf index, the two summing to 1.
C11_ExactProbabilities ==
    op_name = "prob_against" =>
        /\ op_n <= op_self.values[1] => op_out = <<0, 100>>
        /\ op_n > op_self.values[Len(op_self.values)] => op_out = <<100, 0>>
        /\ Contested(op_self, op_n) =>
              /\ op_n - op_self.values[1] - 1 \in 0..(Len(op_self.cdf_w) - 1)
              /\ op_out[1] * op_self.total = 100 * MassBelow(op_self, op_n)
              /\ op_out[2] * op_self.total
                    = 100 * (op_self.total - MassBelow(op_self, op_n))
              /\ op_out[1] + op_out[2] = 100

\* C11, amended: as above, but for a target among the values above the lowest one
\* the two entries are the mass below target and the mass at or above it, each
\* rounded to two decimals; they still sum to 1.  from_hit puts them on {0, 1}.
C11_RoundedProbabilities ==
    /\ op_name = "prob_against" =>
        /\ op_n <= op_self.values[1] => op_out = <<0, 100>>
        /\ op_n > op_self.values[Len(op_self.values)] => op_out = <<100, 0>>
        /\ Contested(op_self, op_n) =>
              /\ op_n - op_self.values[1] - 1 \in 0..(Len(op_self.cdf_w) - 1)
              /\ IsRounded(op_out[1], MassBelow(op_self, op_n), op_self.total)
              /\ IsRounded(op_out[2], op_self.total - MassBelow(op_self, op_n),
                           op_self.total)
              /\ op_out[1] + op_out[2] = 100
    /\ op_name = "from_hit" =>
        /\ op_out.domain = <<0, 1>>
        /\ \E fail \in 0..100 :
              /\ op_n <= op_self.values[1] => fail = 0
              /\ op_n > op_self.values[Len(op_self.values)] => fail = 100
              /\ Contested(op_self, op_n) =>
                    IsRounded(fail, MassBelow(op_self, op_n), op_self.total)
              /\ op_out.w[1] * 100 = fail * op_out.den
              /\ op_out.w[2] * 100 = (100 - fail) * op_out.den

\* a roll with boons against a target among its values whose failure mass is not
\* a whole number of hundredths
C11_Witness ==
    /\ op_name = "prob_against"
    /\ Contested(op_self, op_n)
    /\ Len(op_self.values) > 6
    /\ (100 * MassBelow(op_self, op_n)) % op_self.total # 0
    /\ op_out[1] > 0

-----------------------------------------------------------------------------
(* C12 *)

\* the hits of a round under the evidence record e: supplied, else precomputed
EffectiveHits(e, field, precomputed) == IF e[field] # None THEN e[field] ELSE precomputed

\* some damage the evidence record e does not supply cannot be derived: its
\* multiply damage-per-hit * hits fails
NeededDerivationFails(e) ==
    \/ /\ e.a_damage = None
       /\ IsError(__mul__(a_dmg_const, EffectiveHits(e, "a_hits", a_hits_const)))
    \/ /\ e.b_damage = None
       /\ IsError(__mul__(b_dmg_const, EffectiveHits(e, "b_hits", b_hits_const)))

\* C12: a field the evidence supplies is used instead of being derived, so an
\* advance_round call in which every damage that has to be derived can be derived
\* completes and stores its round with the supplied values, even when the
\* derivation of a supplied damage would fail.
C12_SuppliedFieldNotDerived ==
    (last_call.name = "advance_round"
        /\ ~NeededDerivationFails(or_empty(last_call.arg))) =>
        /\ last_call.raised = "none"
        /\ used[Len(used)].evidence = last_call.arg
        /\ \A f \in Fields :
              or_empty(last_call.arg)[f] # None =>
                  rounds[Len(rounds)][f] = or_empty(last_call.arg)[f]

====
